---------------------------- MODULE Spec2Model ----------------------------
(***************************************************************************)
(* Model of the Autonomous-ML-Agent backend: the local blob store          *)
(* (app/services/local_storage_service.py), the sandbox executor           *)
(* (app/services/e2b_service.py), the code validator                       *)
(* (app/utils/code_validator.py) and the workflow endpoints                *)
(* (app/routes.py).                                                        *)
(*                                                                         *)
(* Strings that the code inspects (storage keys, file names) are           *)
(* sequences of tokens.  A token is either one of the characters the code  *)
(* looks for ("/", ".", "_") or a word that contains none of them, so      *)
(* that  '..' in key,  key.startswith('/'),  key.startswith('uploads/'),   *)
(* os.path.basename and str.split('_') are computed on the sequence the    *)
(* way Python computes them on the characters.                             *)
(*                                                                         *)
(* One request is one action: the handler runs to its response.  The       *)
(* server then returns to "idle" (Respond) and accepts the next request.   *)
(* What a handler did, in order, is kept in last.events.                   *)
(*                                                                         *)
(* Six specifications share the state:                                     *)
(*   Spec          the workflow endpoints of routes.py                     *)
(*   ExecutorSpec  the three E2BService operations called directly         *)
(*   StorageSpec   the LocalStorageService operations called directly      *)
(*   RoundTripSpec uploads read back at once with the returned key         *)
(*   ValidatorSpec the CodeValidator operations called directly            *)
(*   GenerationSpec the endpoints that obtain code from the generator      *)
(* A write to the store fails only where the handler itself catches the    *)
(* failure and carries on (the training code file of execute_training, the *)
(* preprocessing code file of generate_preprocessing_code).                *)
(***************************************************************************)
EXTENDS Integers, Sequences, FiniteSets, TLC

VARIABLES
    files,      \* the blob store: storage key (token sequence) -> content
    nextId,     \* source of the timestamp/uuid parts of generated keys
    pc,         \* "idle": waiting for a request; "done": a response is out
    last        \* the request just served: operation, inputs, events, response

vars == <<files, nextId, pc, last>>

----------------------------------------------------------------------------
(* Bounds of the model *)

\* longest caller-supplied key that is enumerated token by token
MaxKeyLen == 4

\* number of timestamp/uuid pairs the clock hands out
MaxIds == 4

----------------------------------------------------------------------------
(* Token strings *)

KeyAlphabet == {"uploads", "processed", "models", "/", ".", "a"}

RECURSIVE SeqsUpTo(_, _)
SeqsUpTo(S, n) ==
    IF n = 0 THEN {<<>>}
    ELSE LET shorter == SeqsUpTo(S, n - 1)
         IN  shorter \cup {Append(s, t) : s \in {x \in shorter : Len(x) = n - 1}, t \in S}

\* s.startswith(p)
StartsWith(s, p) ==
    /\ Len(s) >= Len(p)
    /\ \A i \in 1..Len(p) : s[i] = p[i]

\* s.endswith(p)
EndsWith(s, p) ==
    /\ Len(s) >= Len(p)
    /\ \A i \in 1..Len(p) : s[Len(s) - Len(p) + i] = p[i]

\* '..' in s
HasDotDot(s) == \E i \in 1..(Len(s) - 1) : s[i] = "." /\ s[i + 1] = "."

\* t in s, for a one-token t
HasToken(s, t) == \E i \in 1..Len(s) : s[i] = t

\* positions of token t in s
Positions(s, t) == {i \in 1..Len(s) : s[i] = t}

SetMax(S) == CHOOSE m \in S : \A x \in S : x <= m

\* os.path.basename(s): what follows the last '/'
Basename(s) ==
    IF Positions(s, "/") = {} THEN s
    ELSE SubSeq(s, SetMax(Positions(s, "/")) + 1, Len(s))

\* the i-th smallest element of a set of integers
RECURSIVE NthSmallest(_, _)
NthSmallest(S, i) ==
    LET m == CHOOSE x \in S : \A y \in S : x <= y
    IN  IF i = 1 THEN m ELSE NthSmallest(S \ {m}, i - 1)

\* '_'.join(s.split('_')[3:]) when s.split('_') has at least 4 parts:
\* what follows the third '_'
AfterThirdUnderscore(s) ==
    SubSeq(s, NthSmallest(Positions(s, "_"), 3) + 1, Len(s))

UploadsPrefix   == <<"uploads", "/">>
ProcessedPrefix == <<"processed", "/">>
ModelsPrefix    == <<"models", "/">>

\* f"{timestamp}_{unique_id}_" with timestamp = '%Y%m%d_%H%M%S'
Stamp(id) == <<"date", "_", "time", "_", ToString(id), "_">>

----------------------------------------------------------------------------
(* LocalStorageService *)

\* one call made by a handler, with what it was made on
Ev(name, arg) == [ev |-> name, arg |-> arg]

EmptyStore == [k \in {} |-> "none"]

\* os.listdir(uploads_dir): names of the files under uploads/
UploadNames(fs) ==
    {SubSeq(k, 3, Len(k)) : k \in {x \in DOMAIN fs : StartsWith(x, UploadsPrefix)}}

\* the format validation without its '..' test
KeyFormatInvalidNoDotDot(key) == key = <<>> \/ StartsWith(key, <<"/">>)

\* the security validations shared by download_file and delete_file
KeyFormatInvalid(key) == key = <<>> \/ HasDotDot(key) \/ StartsWith(key, <<"/">>)

KeyPrefixAllowed(key) ==
    StartsWith(key, UploadsPrefix) \/ StartsWith(key, ProcessedPrefix)

\* a download that looks for a similarly named upload without trying the
\* exact path first
download_similar_first(fs, key) ==
    IF KeyFormatInvalid(key)
    THEN {[ok |-> FALSE, error |-> "Invalid storage key format", fs |-> <<>>]}
    ELSE IF ~KeyPrefixAllowed(key)
    THEN {[ok |-> FALSE, error |-> "Access denied: Invalid file path", fs |-> <<>>]}
    ELSE LET base    == Basename(key)
             looked  == <<Ev("fs.listdir", <<"uploads">>)>>
             similar == IF Cardinality(Positions(base, "_")) >= 3
                        THEN {n \in UploadNames(fs) : EndsWith(n, AfterThirdUnderscore(base))}
                        ELSE {}
         IN  IF similar = {}
             THEN {[ok |-> FALSE, error |-> "File not found at path", fs |-> looked]}
             ELSE {[ok |-> TRUE, path |-> UploadsPrefix \o n, fs |-> looked] : n \in similar}

\* download_file(storage_key): the set of outcomes (os.listdir gives the
\* names in arbitrary order, so the similar-file search may stop at any
\* matching name).  fs lists the file-system calls made, in order.
download_file(fs, key) ==
    IF KeyFormatInvalid(key)
    THEN {[ok |-> FALSE, error |-> "Invalid storage key format", fs |-> <<>>]}
    ELSE IF ~KeyPrefixAllowed(key)
    THEN {[ok |-> FALSE, error |-> "Access denied: Invalid file path", fs |-> <<>>]}
    ELSE IF key \in DOMAIN fs
    THEN {[ok |-> TRUE, path |-> key, fs |-> <<Ev("fs.exists", key)>>]}
    ELSE LET base    == Basename(key)
             looked  == <<Ev("fs.exists", key),
                          Ev("fs.listdir", <<"uploads">>)>>
             similar == IF Cardinality(Positions(base, "_")) >= 3
                        THEN {n \in UploadNames(fs) : EndsWith(n, AfterThirdUnderscore(base))}
                        ELSE {}
         IN  IF similar = {}
             THEN {[ok |-> FALSE, error |-> "File not found at path", fs |-> looked]}
             ELSE {[ok |-> TRUE, path |-> UploadsPrefix \o n, fs |-> looked] : n \in similar}

\* delete_file(storage_key): outcome and the store afterwards
delete_file(fs, key) ==
    IF KeyFormatInvalid(key)
    THEN [ok |-> FALSE, error |-> "Invalid storage key format", fs |-> <<>>, files |-> fs]
    ELSE IF ~KeyPrefixAllowed(key)
    THEN [ok |-> FALSE, error |-> "Access denied: Cannot delete system files",
          fs |-> <<>>, files |-> fs]
    ELSE IF key \in DOMAIN fs
    THEN [ok |-> TRUE, error |-> "",
          fs |-> <<Ev("fs.exists", key), Ev("fs.remove", key)>>,
          files |-> [k \in (DOMAIN fs) \ {key} |-> fs[k]]]
    ELSE [ok |-> TRUE, error |-> "", fs |-> <<Ev("fs.exists", key)>>, files |-> fs]

----------------------------------------------------------------------------
(* CodeValidator.  A piece of generated code is the record of what the     *)
(* validator's parse and substring tests see in its text:                  *)
(*   syntax      "ok": ast.parse accepts it; "try_fixable"/"try_unfixable":*)
(*               SyntaxError "expected 'except' or 'finally' block", and   *)
(*               the text with the except block added parses / does not;   *)
(*               "other": any other SyntaxError; "crash": ast.parse raises *)
(*               something that is not a SyntaxError                       *)
(*   repaired    the except block of the syntax repair is in the text      *)
(*   sparseOHE   OneHotEncoder\([^)]*sparse=False[^)]*\) matches           *)
(*   sparseOther 'sparse=False' occurs outside such a call                 *)
(*   sparseOut   'sparse_output=False' occurs                              *)
(*   pd, np      'import pandas as pd' / 'import numpy as np' occur        *)
(*   cleaned_df, cleaned_data, to_csv   the substring occurs               *)
(*   vars        which of processed_data, final_data, X_processed,         *)
(*               df_processed occur                                        *)
(*   appended    the alias lines ensure_cleaned_df_variable appended       *)
(***************************************************************************)

SyntaxKinds == {"ok", "try_fixable", "try_unfixable", "other", "crash"}

AliasVars == {"processed_data", "final_data", "X_processed", "df_processed"}

SyntaxIssue   == "Syntax Error at line n: msg"
ExceptFix     == "Added missing except block to incomplete try statement"
SparseIssue   == "Deprecated 'sparse=False' parameter in OneHotEncoder"
SparseFix     == "Replaced 'sparse=False' with 'sparse_output=False'"
MissingPd     == "Missing required import: import pandas as pd"
MissingNp     == "Missing required import: import numpy as np"
MissingVar    == "No 'cleaned_df' or 'cleaned_data' variable found"
MissingSave   == "No CSV saving operation found"
CrashIssue    == "Code validation error"

\* a syntax check that keeps its repaired text even when that text does
\* not parse
keep_unparsed_repair(code) ==
    CASE code.syntax = "ok" ->
            [valid |-> TRUE, issues |-> <<>>, fixes |-> <<>>, fixed_code |-> code]
      [] code.syntax = "try_fixable" ->
            [valid |-> TRUE, issues |-> <<>>, fixes |-> <<ExceptFix>>,
             fixed_code |-> [code EXCEPT !.syntax = "ok", !.repaired = TRUE]]
      [] code.syntax = "try_unfixable" ->
            [valid |-> FALSE, issues |-> <<SyntaxIssue>>, fixes |-> <<ExceptFix>>,
             fixed_code |-> [code EXCEPT !.repaired = TRUE]]
      [] code.syntax = "other" ->
            [valid |-> FALSE, issues |-> <<SyntaxIssue>>, fixes |-> <<>>,
             fixed_code |-> code]
      [] OTHER ->
            [valid |-> FALSE, issues |-> <<CrashIssue>>, fixes |-> <<>>,
             fixed_code |-> code]

\* validate_python_syntax(code)
validate_python_syntax(code) ==
    CASE code.syntax = "ok" ->
            [valid |-> TRUE, issues |-> <<>>, fixes |-> <<>>, fixed_code |-> code]
      [] code.syntax = "try_fixable" ->
            [valid |-> TRUE, issues |-> <<>>, fixes |-> <<ExceptFix>>,
             fixed_code |-> [code EXCEPT !.syntax = "ok", !.repaired = TRUE]]
      [] code.syntax = "try_unfixable" ->
            [valid |-> FALSE, issues |-> <<SyntaxIssue>>, fixes |-> <<ExceptFix>>,
             fixed_code |-> code]
      [] code.syntax = "other" ->
            [valid |-> FALSE, issues |-> <<SyntaxIssue>>, fixes |-> <<>>,
             fixed_code |-> code]
      [] OTHER ->
            [valid |-> FALSE, issues |-> <<CrashIssue>>, fixes |-> <<>>,
             fixed_code |-> code]

\* validate_sklearn_syntax(code)
validate_sklearn_syntax(code) ==
    LET sparse == IF code.sparseOHE THEN <<SparseIssue>> ELSE <<>>
        issues == sparse
                  \o (IF code.pd THEN <<>> ELSE <<MissingPd>>)
                  \o (IF code.np THEN <<>> ELSE <<MissingNp>>)
                  \o (IF ~code.cleaned_df /\ ~code.cleaned_data THEN <<MissingVar>> ELSE <<>>)
                  \o (IF code.to_csv THEN <<>> ELSE <<MissingSave>>)
    IN  [valid |-> issues = <<>>,
         issues |-> issues,
         fixes |-> IF code.sparseOHE THEN <<SparseFix>> ELSE <<>>,
         fixed_code |-> IF code.sparseOHE
                        THEN [code EXCEPT !.sparseOHE = FALSE, !.sparseOther = FALSE,
                                          !.sparseOut = TRUE]
                        ELSE code]

\* the first (old_var, new_assignment) of variable_mappings whose old_var occurs
FirstAlias(code) ==
    CASE "processed_data" \in code.vars -> "processed_data"
      [] code.cleaned_data              -> "cleaned_data"
      [] "final_data" \in code.vars     -> "final_data"
      [] "X_processed" \in code.vars    -> "X_processed"
      [] "df_processed" \in code.vars   -> "df_processed"
      [] OTHER                          -> "none"

\* an alias step that does not look for 'cleaned_df' before it appends
append_alias_always(code) ==
    IF FirstAlias(code) = "none"
    THEN code
    ELSE [code EXCEPT !.appended = Append(@, FirstAlias(code)), !.cleaned_df = TRUE]

\* ensure_cleaned_df_variable(code)
ensure_cleaned_df_variable(code) ==
    IF code.cleaned_df \/ FirstAlias(code) = "none"
    THEN code
    ELSE [code EXCEPT !.appended = Append(@, FirstAlias(code)), !.cleaned_df = TRUE]

\* a validation that runs the convention checks whatever the syntax result
validate_all_steps(code) ==
    LET syntax_result  == validate_python_syntax(code)
        sklearn_result == validate_sklearn_syntax(syntax_result.fixed_code)
    IN  [valid |-> syntax_result.issues \o sklearn_result.issues = <<>>,
         issues |-> syntax_result.issues \o sklearn_result.issues,
         fixes_applied |-> syntax_result.fixes \o sklearn_result.fixes,
         original_code |-> code,
         fixed_code |-> ensure_cleaned_df_variable(sklearn_result.fixed_code),
         validation_passed |-> TRUE]

\* validate_and_fix_code(code)
validate_and_fix_code(code) ==
    LET syntax_result  == validate_python_syntax(code)
        sklearn_result == validate_sklearn_syntax(syntax_result.fixed_code)
    IN  IF syntax_result.valid
        THEN [valid |-> syntax_result.issues \o sklearn_result.issues = <<>>,
              issues |-> syntax_result.issues \o sklearn_result.issues,
              fixes_applied |-> syntax_result.fixes \o sklearn_result.fixes,
              original_code |-> code,
              fixed_code |-> ensure_cleaned_df_variable(sklearn_result.fixed_code),
              validation_passed |-> TRUE]
        ELSE [valid |-> FALSE,
              issues |-> syntax_result.issues,
              fixes_applied |-> syntax_result.fixes,
              original_code |-> code,
              fixed_code |-> syntax_result.fixed_code,
              validation_passed |-> TRUE]

\* complete, modern preprocessing code
CleanCode ==
    [syntax |-> "ok", repaired |-> FALSE, sparseOHE |-> FALSE, sparseOther |-> FALSE,
     sparseOut |-> FALSE, pd |-> TRUE, np |-> TRUE, cleaned_df |-> TRUE,
     cleaned_data |-> FALSE, to_csv |-> TRUE, vars |-> {}, appended |-> <<>>]

\* the code texts submitted to the endpoints
RequestCodes ==
    {CleanCode,
     [CleanCode EXCEPT !.sparseOHE = TRUE],
     [CleanCode EXCEPT !.cleaned_df = FALSE, !.vars = {"processed_data"}],
     [CleanCode EXCEPT !.syntax = "try_fixable"],
     [CleanCode EXCEPT !.syntax = "try_unfixable"],
     [CleanCode EXCEPT !.syntax = "other", !.to_csv = FALSE]}

----------------------------------------------------------------------------
(* The remote sandbox, as the executor sees it.  One record says how the   *)
(* sandbox answers during one executor call:                               *)
(*   create, upload    "ok" or "fail" (Sandbox.create / files.write raise) *)
(*   install, run      "returns" or "raise" (run_code raises)              *)
(*   shape             the attributes of the object run_code returns       *)
(*   cleaned           cleaned_data.csv: "absent", "empty" or "data"       *)
(*   listing           the os.listdir run: "fails", "none" or "files"      *)
(*   results           model_results.json: "none", "storage" or "root"     *)
(*   tuning            hyperparameter_tuning_results.json present          *)
(*   report            tuning_comparison_report.json: "absent",            *)
(*                     "dict_with" or "dict_without" (overall_improvement) *)
(*   scaler            storage/models/scaler.pkl can be read               *)
(* An attribute of the returned object is "absent" (no such attribute),    *)
(* "empty" (falsy) or "val".  errText is what the error payload's string   *)
(* form contains: "plain" (no marker), "Error", "Exception" (and not       *)
(* "Error"), or "empty" for the empty list of the structured form;         *)
(* errDict says that the payload is a dict.                                *)
(***************************************************************************)

AttrStates == {"absent", "empty", "val"}

CreateError  == "sandbox creation error"
UploadError  == "sandbox upload error"
InstallError == "sandbox install error"
RunError     == "sandbox run error"
UnboundLocalError == "cannot access local variable 'start_time'"

QuietShape ==
    [stdout |-> "val", text |-> "absent", output |-> "absent", content |-> "absent",
     strOut |-> "plain",
     stderr |-> "absent", error |-> "absent", errors |-> "absent", strErr |-> "none",
     errText |-> "plain", errDict |-> FALSE]

\* every combination of the standard-output attributes, no error output
StdoutShapes ==
    {[QuietShape EXCEPT !.stdout = a, !.text = b, !.output = c, !.content = d, !.strOut = e] :
        a \in AttrStates, b \in AttrStates, c \in AttrStates, d \in AttrStates,
        e \in {"plain", "match", "nomatch"}}

\* every combination of the error attributes, standard output in .stdout
StderrShapes ==
    {sh \in {[QuietShape EXCEPT !.stderr = a, !.error = b, !.errors = c, !.strErr = e,
                                !.errText = t, !.errDict = d] :
                a \in AttrStates, b \in AttrStates, c \in AttrStates,
                e \in {"none", "match", "nomatch"},
                t \in {"empty", "plain", "Error", "Exception"}, d \in BOOLEAN} :
        \* a payload held by an attribute is truthy; the structured form holds text
        /\ (sh.errText = "empty" => sh.stderr # "val" /\ sh.error # "val" /\ sh.errors # "val")
        /\ (sh.errDict => sh.stderr = "val" \/ sh.error = "val")}

NoOutput == [src |-> "none", text |-> "empty", dict |-> FALSE]

\* e2b_service.py 84-107: the standard output of a preprocessing run
PreStdout(sh) ==
    CASE sh.stdout = "val"  -> [src |-> "stdout"]
      [] sh.text = "val"    -> [src |-> "text"]
      [] sh.output = "val"  -> [src |-> "output"]
      [] sh.content = "val" -> [src |-> "content"]
      [] sh.strOut = "match" -> [src |-> "pattern"]
      [] OTHER              -> [src |-> "str"]

\* e2b_service.py 110-125: the error output of a preprocessing run
PreStderr(sh) ==
    CASE sh.stderr = "val" -> [src |-> "stderr", text |-> sh.errText, dict |-> sh.errDict]
      [] sh.error = "val"  -> [src |-> "error", text |-> sh.errText, dict |-> sh.errDict]
      [] sh.errors = "val" -> [src |-> "errors", text |-> sh.errText, dict |-> FALSE]
      [] sh.strErr = "match" -> [src |-> "pattern", text |-> sh.errText, dict |-> FALSE]
      [] OTHER             -> NoOutput

\* e2b_service.py 279-286: the standard output of a training run
TrainStdout(sh) ==
    CASE sh.stdout = "val"  -> [src |-> "stdout"]
      [] sh.text = "val"    -> [src |-> "text"]
      [] sh.output = "val"  -> [src |-> "output"]
      [] OTHER              -> [src |-> "str"]

\* e2b_service.py 288-291 and 600-603: the error output of a training or tuning run
TrainStderr(sh) ==
    CASE sh.stderr = "val" -> [src |-> "stderr", text |-> sh.errText, dict |-> sh.errDict]
      [] sh.error = "val"  -> [src |-> "error", text |-> sh.errText, dict |-> sh.errDict]
      [] OTHER             -> NoOutput

\* e2b_service.py 588-597: the standard output of a tuning run
TuneStdout(sh) ==
    CASE sh.stdout = "val"  -> [src |-> "stdout"]
      [] sh.text = "val"    -> [src |-> "text"]
      [] sh.output = "val"  -> [src |-> "output"]
      [] sh.content = "val" -> [src |-> "content"]
      [] OTHER              -> [src |-> "str"]

----------------------------------------------------------------------------
(* E2BService: the three executor operations.  Each gives                  *)
(*   result   the dict returned to the caller (a key that the dict does    *)
(*            not hold is not in the record's domain)                      *)
(*   events   the calls made to the sandbox and to the local store         *)
(*   stored   the files written to storage/models (tuning only)            *)
(* An error is the sequence of its message's parts.                        *)
(***************************************************************************)

BaseEnv ==
    [create |-> "ok", upload |-> "ok", install |-> "returns", run |-> "returns",
     shape |-> QuietShape, cleaned |-> "absent", listing |-> "none",
     models |-> <<>>, results |-> "none",
     tuning |-> FALSE, report |-> "absent", tuned |-> <<>>, readable |-> TRUE,
     scaler |-> FALSE]

\* the ways a call ends before the generated code has run
TransportEnvs(twoPhase) ==
    {[BaseEnv EXCEPT !.create = "fail"],
     [BaseEnv EXCEPT !.upload = "fail"],
     [BaseEnv EXCEPT !.run = "raise"]}
    \cup (IF twoPhase THEN {[BaseEnv EXCEPT !.install = "raise"]} ELSE {})

PreEnvs(shapes) ==
    TransportEnvs(FALSE) \cup
    {[BaseEnv EXCEPT !.shape = sh, !.cleaned = c, !.listing = l] :
        sh \in shapes, c \in {"absent", "empty", "data"}, l \in {"fails", "none", "files"}}

TrainEnvs(shapes) ==
    TransportEnvs(TRUE) \cup
    {[BaseEnv EXCEPT !.shape = sh, !.listing = l, !.models = m, !.results = r] :
        sh \in shapes, l \in {"fails", "files"},
        m \in {<<>>, <<"rf_model.pkl">>}, r \in {"none", "storage", "root"}}

TuneEnvs(shapes) ==
    TransportEnvs(TRUE) \cup
    {[BaseEnv EXCEPT !.shape = sh, !.listing = l, !.tuned = t, !.readable = rd,
                     !.tuning = tr, !.report = rp, !.scaler = sc] :
        sh \in shapes, l \in {"fails", "files"},
        t \in {<<>>, <<"rf">>}, rd \in BOOLEAN, tr \in BOOLEAN,
        rp \in {"absent", "dict_with", "dict_without"}, sc \in BOOLEAN}

\* the outer handler of execute_preprocessing_code / execute_training_code
OuterFailure(prefix, msg) == [success |-> FALSE, error |-> <<prefix, msg>>]

\* the inner handler of execute_preprocessing_code / execute_training_code:
\* it reads start_time, which is assigned only after the upload
InnerFailure(startTimeBound, prefix, msg) ==
    IF startTimeBound
    THEN [success |-> FALSE, execution_id |-> "id", error |-> <<msg>>,
          execution_time |-> "elapsed"]
    ELSE OuterFailure(prefix, UnboundLocalError)

\* an executor that treats error output of the run as a failure of the call
AbortOnErrorOutput(code, env) ==
    [result |-> [success |-> PreStderr(env.shape).text = "empty" /\ env.create = "ok",
                 execution_id |-> "id", execution_time |-> "elapsed",
                 error |-> <<RunError>>],
     events |-> <<Ev("sandbox.create", env.create), Ev("sandbox.run", code)>>,
     stored |-> EmptyStore]

\* what os.listdir('.') in the sandbox prints after a preprocessing run
PreListing(env) ==
    IF env.listing = "files"
    THEN <<"uploaded_data.csv">> \o (IF env.cleaned = "absent" THEN <<>> ELSE <<"cleaned_data.csv">>)
    ELSE <<>>

PrePrefix == "Sandbox initialization failed: "

\* execute_preprocessing_code(code, csv_data_path)
execute_preprocessing_code(code, env) ==
    IF env.create = "fail"
    THEN [result |-> OuterFailure(PrePrefix, CreateError),
          events |-> <<Ev("sandbox.create", "fail")>>, stored |-> EmptyStore]
    ELSE IF env.upload = "fail"
    THEN [result |-> InnerFailure(FALSE, PrePrefix, UploadError),
          events |-> <<Ev("sandbox.create", "ok"), Ev("sandbox.write", "fail")>>,
          stored |-> EmptyStore]
    ELSE IF env.run = "raise"
    THEN [result |-> InnerFailure(TRUE, PrePrefix, RunError),
          events |-> <<Ev("sandbox.create", "ok"), Ev("sandbox.write", "ok"),
                       Ev("sandbox.run", code), Ev("sandbox.raised", "run")>>,
          stored |-> EmptyStore]
    ELSE [result |->
             [success |-> TRUE, execution_id |-> "id", execution_time |-> "elapsed",
              stdout |-> PreStdout(env.shape),
              stderr |-> PreStderr(env.shape),
              cleaned_data_exists |-> env.cleaned # "absent",
              cleaned_data_content |-> IF env.cleaned = "data" THEN "cleaned csv" ELSE "None",
              files_created |-> PreListing(env)],
          events |-> <<Ev("sandbox.create", "ok"), Ev("sandbox.write", "ok"),
                       Ev("sandbox.run", code), Ev("sandbox.returned", "run"),
                       Ev("sandbox.read", "cleaned_data.csv"),
                       Ev("sandbox.list", env.listing)>>,
          stored |-> EmptyStore]

TrainPrefix == "Training sandbox failed: "

\* the names the listing of '.pkl', '.joblib', '.h5', '.json' files prints
TrainListing(env) ==
    IF env.listing = "files"
    THEN env.models \o (IF env.results = "root" THEN <<"model_results.json">> ELSE <<>>)
    ELSE <<>>

\* execute_training_code(code, cleaned_data_path)
execute_training_code(code, env) ==
    IF env.create = "fail"
    THEN [result |-> OuterFailure(TrainPrefix, CreateError),
          events |-> <<Ev("sandbox.create", "fail")>>, stored |-> EmptyStore]
    ELSE IF env.upload = "fail"
    THEN [result |-> InnerFailure(FALSE, TrainPrefix, UploadError),
          events |-> <<Ev("sandbox.create", "ok"), Ev("sandbox.write", "fail")>>,
          stored |-> EmptyStore]
    ELSE IF env.install = "raise"
    THEN [result |-> InnerFailure(TRUE, TrainPrefix, InstallError),
          events |-> <<Ev("sandbox.create", "ok"), Ev("sandbox.write", "ok"),
                       Ev("sandbox.install", "raise")>>,
          stored |-> EmptyStore]
    ELSE IF env.run = "raise"
    THEN [result |-> InnerFailure(TRUE, TrainPrefix, RunError),
          events |-> <<Ev("sandbox.create", "ok"), Ev("sandbox.write", "ok"),
                       Ev("sandbox.install", "returns"),
                       Ev("sandbox.run", code), Ev("sandbox.raised", "run")>>,
          stored |-> EmptyStore]
    ELSE LET parsed == IF env.results = "none" THEN <<>> ELSE <<"rf">>
         IN
         [result |->
             [success |-> TRUE, execution_id |-> "id", execution_time |-> "elapsed",
              stdout |-> TrainStdout(env.shape),
              stderr |-> TrainStderr(env.shape),
              model_files |-> TrainListing(env),
              results |-> IF env.results = "none" THEN "None" ELSE "metrics",
              model_results |-> parsed,
              models_trained |-> IF parsed # <<>> THEN Len(parsed) ELSE Len(TrainListing(env))],
          events |-> <<Ev("sandbox.create", "ok"), Ev("sandbox.write", "ok"),
                       Ev("sandbox.install", "returns"),
                       Ev("sandbox.run", code), Ev("sandbox.returned", "run"),
                       Ev("sandbox.list", env.listing),
                       Ev("sandbox.read", "model_results.json")>>,
          stored |-> EmptyStore]

\* the dict of the handlers of execute_hyperparameter_tuning; start_time is
\* assigned before the sandbox is created
TuneCreateFailure(msg) ==
    [success |-> FALSE, execution_id |-> "id", error |-> <<msg>>,
     execution_time |-> "elapsed"]

\* an inner handler that still reports the files seen before the failure
TuneInnerFailureWithFiles(msg) ==
    [success |-> FALSE, execution_id |-> "id", error |-> <<msg>>,
     execution_time |-> "elapsed", stdout |-> NoOutput,
     stderr |-> [src |-> "exception", text |-> "plain", dict |-> FALSE],
     files_created |-> <<"rf">>]

TuneInnerFailure(msg) ==
    [success |-> FALSE, execution_id |-> "id", error |-> <<msg>>,
     execution_time |-> "elapsed", stdout |-> NoOutput,
     stderr |-> [src |-> "exception", text |-> "plain", dict |-> FALSE]]

TunedModelKey(name) == ModelsPrefix \o <<name, "_tuned_model.pkl">>

ScalerKey == ModelsPrefix \o <<"scaler.pkl">>

\* the tuned model files copied from the sandbox to storage/models
TunedDownloads(env) ==
    IF env.listing = "files" /\ env.readable THEN env.tuned ELSE <<>>

\* e2b_service.py 672-702: the files written to storage/models
TuneStored(env) ==
    LET keys == {TunedModelKey(TunedDownloads(env)[i]) : i \in 1..Len(TunedDownloads(env))}
                \cup (IF env.listing = "files" /\ env.scaler THEN {ScalerKey} ELSE {})
    IN  [k \in keys |-> IF k = ScalerKey THEN "scaler" ELSE "tuned model"]

RECURSIVE StoreEvents(_)
StoreEvents(keys) ==
    IF keys = {} THEN <<>>
    ELSE LET k == CHOOSE x \in keys : TRUE
         IN  <<Ev("store.write", k)>> \o StoreEvents(keys \ {k})

\* execute_hyperparameter_tuning(tuning_code, data_file_path, experiment_id)
execute_hyperparameter_tuning(code, env) ==
    IF env.create = "fail"
    THEN [result |-> TuneCreateFailure(CreateError),
          events |-> <<Ev("sandbox.create", "fail")>>, stored |-> EmptyStore]
    ELSE IF env.upload = "fail"
    THEN [result |-> TuneInnerFailure(UploadError),
          events |-> <<Ev("sandbox.create", "ok"), Ev("sandbox.write", "fail")>>,
          stored |-> EmptyStore]
    ELSE IF env.install = "raise"
    THEN [result |-> TuneInnerFailure(InstallError),
          events |-> <<Ev("sandbox.create", "ok"), Ev("sandbox.write", "ok"),
                       Ev("sandbox.install", "raise")>>,
          stored |-> EmptyStore]
    ELSE IF env.run = "raise"
    THEN [result |-> TuneInnerFailure(RunError),
          events |-> <<Ev("sandbox.create", "ok"), Ev("sandbox.write", "ok"),
                       Ev("sandbox.install", "returns"),
                       Ev("sandbox.run", code), Ev("sandbox.raised", "run")>>,
          stored |-> EmptyStore]
    ELSE LET ran == <<Ev("sandbox.create", "ok"), Ev("sandbox.write", "ok"),
                      Ev("sandbox.install", "returns"),
                      Ev("sandbox.run", code), Ev("sandbox.returned", "run"),
                      Ev("sandbox.read", "hyperparameter_tuning_results.json"),
                      Ev("sandbox.read", "tuning_comparison_report.json"),
                      Ev("sandbox.list", env.listing)>>
                     \o StoreEvents(DOMAIN TuneStored(env))
         IN
         \* 'import json' further down the function makes json a local name:
         \* both json.loads calls raise UnboundLocalError inside their try
         \* blocks, so tuning_results and comparison_report stay {}
         [result |->
             [success |-> TRUE, execution_id |-> "id", execution_time |-> "elapsed",
              stdout |-> TuneStdout(env.shape),
              stderr |-> TrainStderr(env.shape),
              tuning_results |-> "{}",
              tuning_results_content |-> IF env.tuning THEN "json text" ELSE "None",
              comparison_report |-> "{}",
              improvements |-> "{}",
              files_created |-> TunedDownloads(env)],
          events |-> ran, stored |-> TuneStored(env)]

----------------------------------------------------------------------------
(* Writes to the blob store.  A stored blob is                             *)
(* [kind, data, code, mtime]: a data file holds data, a code file holds    *)
(* the code record; mtime is the clock value at the write.                 *)
(***************************************************************************)

NoCode == [CleanCode EXCEPT !.syntax = "none"]

DataBlob(kind, data, t) == [kind |-> kind, data |-> data, code |-> NoCode, mtime |-> t]

CodeBlob(code, t) == [kind |-> "code", data |-> "", code |-> code, mtime |-> t]

Put(fs, key, blob) == [k \in (DOMAIN fs) \cup {key} |-> IF k = key THEN blob ELSE fs[k]]

PutAll(fs, more) == [k \in (DOMAIN fs) \cup (DOMAIN more) |->
                        IF k \in DOMAIN more THEN more[k] ELSE fs[k]]

\* a file name clean-up that leaves '..' in the name
KeepDotDot(s) == s

\* str.replace('..', ''): pairs of dots are removed from left to right
RECURSIVE RemoveDotDot(_)
RemoveDotDot(s) ==
    IF Len(s) < 2 THEN s
    ELSE IF s[1] = "." /\ s[2] = "." THEN RemoveDotDot(SubSeq(s, 3, Len(s)))
    ELSE <<s[1]>> \o RemoveDotDot(Tail(s))

\* pathlib.Path(name).suffix: from the last '.', unless it is the first or
\* the last character of the name
Suffix(name) ==
    IF Positions(name, ".") = {} THEN <<>>
    ELSE LET p == SetMax(Positions(name, "."))
         IN  IF 1 < p /\ p < Len(name) THEN SubSeq(name, p, Len(name)) ELSE <<>>

AllowedExtensions == {<<".", "csv">>, <<".", "txt">>}

\* upload_file(file_path, original_filename); src is the state of the file
\* at file_path: "missing", "empty" or its content
upload_file(fs, id, src, original_filename) ==
    LET safe_filename == RemoveDotDot(Basename(original_filename))
        storage_key   == UploadsPrefix \o Stamp(id) \o safe_filename
    IN  IF src = "missing"
        THEN [ok |-> FALSE, error |-> "File not found", events |-> <<>>, files |-> fs]
        ELSE IF src = "empty"
        THEN [ok |-> FALSE, error |-> "Cannot store empty file", events |-> <<>>, files |-> fs]
        ELSE IF safe_filename = <<>>
        THEN [ok |-> FALSE, error |-> "Invalid filename", events |-> <<>>, files |-> fs]
        ELSE IF Suffix(safe_filename) \notin AllowedExtensions
        THEN [ok |-> FALSE, error |-> "File type not allowed", events |-> <<>>, files |-> fs]
        ELSE [ok |-> TRUE, key |-> storage_key,
              events |-> <<Ev("store.write", storage_key)>>,
              files |-> Put(fs, storage_key, DataBlob("csv", src, id))]

\* store_processed_file(file_path, original_key): the new key
ProcessedKey(id, original_key) ==
    ProcessedPrefix \o Stamp(id) \o <<"cleaned", "_">> \o Basename(original_key)

\* routes.py 510: f"training_code_{timestamp}_{execution_id}.py" in storage/models
TrainingCodeKey(id) ==
    ModelsPrefix \o <<"training", "_", "code", "_">> \o SubSeq(Stamp(id), 1, 5) \o <<".", "py">>

\* str.replace('.csv', ''): every '.csv' is dropped
RECURSIVE RemoveCsv(_)
RemoveCsv(s) ==
    IF Len(s) < 2 THEN s
    ELSE IF s[1] = "." /\ s[2] = "csv" THEN RemoveCsv(SubSeq(s, 3, Len(s)))
    ELSE <<s[1]>> \o RemoveCsv(Tail(s))

\* store_preprocessing_code(code, original_key, experiment_id = None): the key
PreprocessingCodeKey(id, original_key) ==
    ProcessedPrefix \o Stamp(id) \o <<"preprocessing", "_">>
    \o RemoveCsv(Basename(original_key)) \o <<".", "py">>

\* the file store_preprocessing_code writes: a comment header, then the code
HeaderedCodeBlob(code, t) == [kind |-> "code", data |-> "header", code |-> code, mtime |-> t]

\* routes.py 741-744: the key of a generated tuning script
TuningCodeKey(id) ==
    ModelsPrefix \o Stamp(id) \o <<"hyperparameter", "_", "tuning", "_", "exp", ".", "py">>

----------------------------------------------------------------------------
(* The endpoints of routes.py.  Each operator gives the handler's outcome: *)
(*   response  the JSON body and the HTTP status                           *)
(*   events    every call made, in order                                   *)
(*   exec      <<r>> when the executor was called and returned r, else <<>>*)
(*   files     the blob store after the request                            *)
(* None is the empty sequence where a key is expected.                     *)
(***************************************************************************)

\* an error test that looks for markers in dict payloads only
HasErrorsDictOnly(stderr) ==
    stderr.text # "empty" /\ stderr.dict /\ stderr.text = "Error"

\* routes.py 430-436
HasErrors(stderr) ==
    /\ stderr.text # "empty"
    /\ IF stderr.dict
       THEN stderr.text = "Error"
       ELSE stderr.text \in {"Error", "Exception"}

\* routes.py 410-412: the code handed to the executor
SubmittedCode(code, validation) ==
    IF validation.fixes_applied # <<>> THEN validation.fixed_code ELSE code

\* a classification without the 'partial_success' default
PreprocessingStatusNoDefault(r) ==
    IF r.cleaned_data_exists /\ r.cleaned_data_content # "None"
    THEN "success"
    ELSE IF r.stderr.text \in {"Error", "Exception"} THEN "failed_with_errors" ELSE "unclassified"

\* a classification that looks at the error output before the dataset
PreprocessingStatusErrorsFirst(r) ==
    IF HasErrors(r.stderr) THEN "failed_with_errors"
    ELSE IF r.cleaned_data_exists /\ r.cleaned_data_content # "None"
    THEN "success"
    ELSE "partial_success"

\* routes.py 425-449: execution_status of a completed preprocessing run
PreprocessingStatus(r) ==
    IF r.cleaned_data_exists /\ r.cleaned_data_content # "None"
    THEN "success"
    ELSE IF HasErrors(r.stderr) THEN "failed_with_errors" ELSE "partial_success"

\* execute_preprocessing(); dl is the outcome of download_file(storage_key)
execute_preprocessing(fs, id, storage_key, code, env, dl) ==
    LET validation == validate_and_fix_code(code)
        ex         == execute_preprocessing_code(SubmittedCode(code, validation), env)
        r          == ex.result
        status     == PreprocessingStatus(r)
        new_key    == ProcessedKey(id, storage_key)
        called     == dl.fs \o <<Ev("validate", code)>> \o ex.events
    IN  IF code = NoCode
        THEN [response |-> [code |-> 400, error |-> <<"Missing preprocessing_code or storage_key/s3_key">>],
              events |-> <<>>, exec |-> <<>>, files |-> fs]
        ELSE IF ~dl.ok
        THEN [response |-> [code |-> 500, error |-> <<"Preprocessing execution failed: ", dl.error>>],
              events |-> dl.fs, exec |-> <<>>, files |-> fs]
        ELSE IF ~r.success
        THEN [response |-> [code |-> 500, success |-> FALSE,
                            error |-> <<"Preprocessing execution failed in E2B sandbox">>],
              events |-> called, exec |-> <<r>>, files |-> fs]
        ELSE IF status = "success"
        THEN [response |-> [code |-> 200, success |-> TRUE,
                            cleaned_storage_key |-> new_key,
                            execution_status |-> status,
                            has_errors |-> HasErrors(r.stderr)],
              events |-> called \o <<Ev("store.write", new_key)>>,
              exec |-> <<r>>,
              files |-> Put(fs, new_key, DataBlob("csv", r.cleaned_data_content, id))]
        ELSE [response |-> [code |-> 400, success |-> FALSE,
                            cleaned_storage_key |-> <<>>,
                            execution_status |-> status,
                            has_errors |-> HasErrors(r.stderr)],
              events |-> called, exec |-> <<r>>, files |-> fs]

\* execute_training(); saved says whether writing the training code worked
execute_training(fs, id, cleaned_storage_key, code, env, dl, saved) ==
    LET code_key == TrainingCodeKey(id)
        ex       == execute_training_code(code, env)
        r        == ex.result
        written  == IF saved THEN Put(fs, code_key, CodeBlob(code, id)) ELSE fs
        called   == dl.fs
                    \o <<Ev(IF saved THEN "store.write" ELSE "store.write_failed", code_key)>>
                    \o ex.events
    IN  IF code = NoCode
        THEN [response |-> [code |-> 400, error |-> <<"Missing training_code or cleaned_storage_key/cleaned_s3_key">>],
              events |-> <<>>, exec |-> <<>>, files |-> fs]
        ELSE IF ~dl.ok
        THEN [response |-> [code |-> 500, error |-> <<"Model training execution failed: ", dl.error>>],
              events |-> dl.fs, exec |-> <<>>, files |-> fs]
        ELSE IF r.success
        THEN [response |-> [code |-> 200, success |-> TRUE,
                            models_trained |-> r.models_trained,
                            model_files |-> r.model_files],
              events |-> called, exec |-> <<r>>, files |-> written]
        ELSE [response |-> [code |-> 500, success |-> FALSE,
                            error |-> <<"Model training execution failed">>],
              events |-> called, exec |-> <<r>>, files |-> written]

\* a path built with os.path.join(storage_root, key) that leaves the store:
\* an absolute key replaces the root, '..' climbs out of it
LeavesStore(key) ==
    \/ StartsWith(key, <<"/">>)
    \/ \E i \in 1..(Len(key) - 1) :
          /\ key[i] = "." /\ key[i + 1] = "."
          /\ (i = 1 \/ key[i - 1] = "/")
          /\ (i + 1 = Len(key) \/ key[i + 2] = "/")

\* os.path.exists(os.path.join(storage_root, key)); outside says whether the
\* path exists when it lies outside the store
PathExists(fs, key, outside) ==
    IF LeavesStore(key) THEN outside ELSE key \in DOMAIN fs

\* what open(...).read() gives for the tuning code file
ForeignText == [CleanCode EXCEPT !.syntax = "other", !.pd = FALSE, !.np = FALSE,
                                 !.cleaned_df = FALSE, !.to_csv = FALSE]

ReadCode(fs, key) ==
    IF key \in DOMAIN fs /\ fs[key].kind = "code" THEN fs[key].code ELSE ForeignText

GenericCleanedKey == <<"cleaned", "_", "data", ".", "csv">>

\* routes.py 819-829: the processed files that qualify, and the newest
CleanedCandidates(fs) ==
    {k \in DOMAIN fs :
        /\ StartsWith(k, ProcessedPrefix)
        /\ HasToken(SubSeq(k, 3, Len(k)), "cleaned")
        /\ EndsWith(k, <<".", "csv">>)}

NewestCleaned(fs) ==
    CHOOSE k \in CleanedCandidates(fs) :
        \A o \in CleanedCandidates(fs) : fs[o].mtime <= fs[k].mtime

\* execute_hyperparameter_tuning() of routes.py
execute_tuning(fs, t, tuning_storage_key, cleaned_data_key, env, outside) ==
    LET tuning_code == ReadCode(fs, tuning_storage_key)
        generic     == cleaned_data_key = GenericCleanedKey
        data_path   == IF generic THEN NewestCleaned(fs) ELSE cleaned_data_key
        looked      == <<Ev("fs.exists", tuning_storage_key), Ev("fs.open", tuning_storage_key)>>
                       \o (IF generic
                           THEN <<Ev("fs.listdir", <<"processed">>)>>
                           ELSE <<Ev("fs.exists", cleaned_data_key)>>)
        ex          == execute_hyperparameter_tuning(tuning_code, env)
        r           == ex.result
        stamped     == [k \in DOMAIN ex.stored |-> DataBlob("model", ex.stored[k], t)]
    IN  IF tuning_storage_key = <<>>
        THEN [response |-> [code |-> 400, error |-> <<"Missing required parameter: tuning_storage_key">>],
              events |-> <<>>, exec |-> <<>>, files |-> fs]
        ELSE IF ~PathExists(fs, tuning_storage_key, outside)
        THEN [response |-> [code |-> 404, error |-> <<"Hyperparameter tuning code not found">>],
              events |-> <<Ev("fs.exists", tuning_storage_key)>>, exec |-> <<>>, files |-> fs]
        ELSE IF generic /\ CleanedCandidates(fs) = {}
        THEN [response |-> [code |-> 404, error |-> <<"No cleaned data files found in processed directory">>],
              events |-> looked, exec |-> <<>>, files |-> fs]
        ELSE IF ~generic /\ ~PathExists(fs, cleaned_data_key, outside)
        THEN [response |-> [code |-> 404, error |-> <<"Cleaned data file not found">>],
              events |-> looked, exec |-> <<>>, files |-> fs]
        ELSE [response |-> [code |-> IF r.success THEN 200 ELSE 400,
                            execution_status |-> IF r.success THEN "completed" ELSE "failed",
                            execution_successful |-> r.success,
                            tuned_models_created |->
                                IF "files_created" \in DOMAIN r THEN r.files_created ELSE <<>>],
              events |-> looked \o <<Ev("fs.open", data_path)>> \o ex.events,
              exec |-> <<r>>,
              files |-> PutAll(fs, stamped)]

\* routes.py 903-906: the two paths tried for a model name
ModelCandidates(model_name) ==
    <<ModelsPrefix \o model_name \o <<"_tuned_model.pkl">>,
      ModelsPrefix \o model_name \o <<"_model.pkl">>>>

\* download_model(model_name)
download_model(fs, model_name, outside) ==
    LET tuned    == ModelCandidates(model_name)[1]
        baseline == ModelCandidates(model_name)[2]
    IN  IF PathExists(fs, tuned, outside)
        THEN [response |-> [code |-> 200, file |-> tuned],
              events |-> <<Ev("fs.exists", tuned), Ev("fs.send", tuned)>>,
              exec |-> <<>>, files |-> fs]
        ELSE IF PathExists(fs, baseline, outside)
        THEN [response |-> [code |-> 200, file |-> baseline],
              events |-> <<Ev("fs.exists", tuned), Ev("fs.exists", baseline),
                           Ev("fs.send", baseline)>>,
              exec |-> <<>>, files |-> fs]
        ELSE [response |-> [code |-> 404, error |-> <<"Model file not found">>],
              events |-> <<Ev("fs.exists", tuned), Ev("fs.exists", baseline)>>,
              exec |-> <<>>, files |-> fs]

\* tune_hyperparameters(): generated is the code the generation client
\* returned (NoCode: the generation call raised)
tune_hyperparameters(fs, id, generated) ==
    LET tuning_storage_key == TuningCodeKey(id)
    IN  IF generated = NoCode
        THEN [response |-> [code |-> 500, error |-> <<"Failed to generate hyperparameter tuning code: ", "Claude API error">>],
              events |-> <<Ev("generate", "fail")>>, exec |-> <<>>, files |-> fs]
        ELSE [response |-> [code |-> 200, tuning_code |-> generated,
                            tuning_storage_key |-> tuning_storage_key],
              events |-> <<Ev("generate", "ok"), Ev("store.write", tuning_storage_key)>>,
              exec |-> <<>>,
              files |-> Put(fs, tuning_storage_key, CodeBlob(generated, id))]

\* POST /generate-preprocessing.  generated is the text ClaudeService
\* returned (NoCode: the API call raised); saved tells whether
\* store_preprocessing_code could write its file.  A key the handler does
\* not add to the response (code_validation, preprocessing_code_key) is <<>>.
generate_preprocessing_code(fs, id, generated, original_key, saved) ==
    LET validation_result == validate_and_fix_code(generated)
        fixed      == validation_result.fixes_applied # <<>>
        code       == IF fixed THEN validation_result.fixed_code ELSE generated
        code_key   == PreprocessingCodeKey(id, original_key)
        validation == [issues_found |-> validation_result.issues,
                       fixes_applied |-> validation_result.fixes_applied,
                       validation_passed |-> validation_result.validation_passed]
        called     == <<Ev("generate", "ok"), Ev("validate", "code"),
                        Ev(IF saved THEN "store.write" ELSE "store.write_failed", code_key)>>
    IN  IF generated = NoCode
        THEN [response |-> [code |-> 500, error |-> <<"Code generation failed: ", "Claude API error">>],
              events |-> <<Ev("generate", "fail")>>, exec |-> <<>>, files |-> fs]
        ELSE [response |->
                  [code |-> 200, success |-> TRUE, preprocessing_code |-> code,
                   code_validation |-> IF fixed THEN <<validation>> ELSE <<>>,
                   preprocessing_code_key |-> IF saved THEN code_key ELSE <<>>],
              events |-> called, exec |-> <<>>,
              files |-> IF saved THEN Put(fs, code_key, HeaderedCodeBlob(code, id)) ELSE fs]

\* POST /generate-training-code
generate_training_code(fs, generated) ==
    IF generated = NoCode
    THEN [response |-> [code |-> 500, error |-> <<"Training code generation failed: ", "Claude API error">>],
          events |-> <<Ev("generate", "fail")>>, exec |-> <<>>, files |-> fs]
    ELSE [response |-> [code |-> 200, success |-> TRUE, training_code |-> generated],
          events |-> <<Ev("generate", "ok")>>, exec |-> <<>>, files |-> fs]

----------------------------------------------------------------------------
(* State machine *)

NoCall == [op |-> "none"]

\* the keys whose content differs between two stores
Written(before, after) ==
    {k \in DOMAIN after : k \notin DOMAIN before \/ after[k] # before[k]}

\* the request just served, as kept in last
Served(op, key, code, out) ==
    [op |-> op, key |-> key, code |-> code, events |-> out.events,
     exec |-> out.exec, response |-> out.response, wrote |-> Written(files, out.files)]

\* the inputs the endpoints are exercised with
UploadFileNames == {<<"a", ".", "csv">>, <<".", ".", "/", "a", ".", "csv">>, <<"a", ".", "exe">>}

\* keys of no stored file: climbing out of the store, absolute, absent, empty
AttackKeys == {<<".", ".", "/", "a">>, <<"/", "a">>, <<"uploads", "/", "a">>, <<>>}

RequestKeys == (DOMAIN files) \cup AttackKeys

UnparsableCode == [CleanCode EXCEPT !.syntax = "other", !.to_csv = FALSE]

ModelCodes == {CleanCode, UnparsableCode}

ModelNames == {<<"rf">>, <<".", ".">>, <<"xgb">>}

ErrorShape == [QuietShape EXCEPT !.stderr = "val", !.errText = "Error"]

RouteShapes ==
    {QuietShape,
     ErrorShape,
     [QuietShape EXCEPT !.stderr = "val", !.errText = "Exception"],
     [QuietShape EXCEPT !.stderr = "val", !.errText = "Exception", !.errDict = TRUE],
     [QuietShape EXCEPT !.error = "val", !.errText = "plain"],
     [QuietShape EXCEPT !.strErr = "match", !.errText = "empty"]}

PreRouteEnvs ==
    TransportEnvs(FALSE) \cup
    {[BaseEnv EXCEPT !.shape = sh, !.cleaned = c, !.listing = "files"] :
        sh \in RouteShapes, c \in {"absent", "empty", "data"}}

TrainRouteEnvs ==
    TransportEnvs(TRUE) \cup
    {[BaseEnv EXCEPT !.shape = sh, !.listing = "files", !.models = m,
                     !.results = IF m = <<>> THEN "none" ELSE "storage"] :
        sh \in RouteShapes, m \in {<<>>, <<"rf_model.pkl">>}}

TuneRouteEnvs ==
    TransportEnvs(TRUE) \cup
    {[BaseEnv EXCEPT !.listing = "files", !.report = "dict_with"],
     [BaseEnv EXCEPT !.listing = "files", !.tuned = <<"rf">>, !.tuning = TRUE,
                     !.report = "dict_with", !.scaler = TRUE],
     [BaseEnv EXCEPT !.shape = ErrorShape, !.listing = "files"]}

EscapingKey == <<".", ".", "/", "a">>

Init ==
    /\ files = EmptyStore
    /\ nextId = 1
    /\ pc = "idle"
    /\ last = NoCall

\* POST /upload: LocalStorageService.upload_file
Upload ==
    /\ pc = "idle" /\ nextId <= MaxIds
    /\ \E name \in UploadFileNames, src \in {"empty", "csv rows"} :
          LET out == upload_file(files, nextId, src, name)
          IN  /\ last' = [op |-> "upload_file", key |-> name, ok |-> out.ok,
                          events |-> out.events, wrote |-> Written(files, out.files)]
              /\ files' = out.files
              /\ nextId' = IF out.ok THEN nextId + 1 ELSE nextId
    /\ pc' = "done"

\* POST /execute-preprocessing
ExecutePreprocessing ==
    /\ pc = "idle" /\ nextId <= MaxIds
    /\ \E key \in RequestKeys, code \in RequestCodes \cup {NoCode}, env \in PreRouteEnvs :
       \E dl \in download_file(files, key) :
          LET out == execute_preprocessing(files, nextId, key, code, env, dl)
          IN  /\ last' = Served("/execute-preprocessing", key, code, out)
              /\ files' = out.files
              /\ nextId' = IF out.files # files THEN nextId + 1 ELSE nextId
    /\ pc' = "done"

\* POST /execute-training
ExecuteTraining ==
    /\ pc = "idle" /\ nextId <= MaxIds
    /\ \E key \in RequestKeys, code \in ModelCodes \cup {NoCode}, env \in TrainRouteEnvs,
          saved \in BOOLEAN :
       \E dl \in download_file(files, key) :
          LET out == execute_training(files, nextId, key, code, env, dl, saved)
          IN  /\ last' = Served("/execute-training", key, code, out)
              /\ files' = out.files
              /\ nextId' = IF out.files # files THEN nextId + 1 ELSE nextId
    /\ pc' = "done"

\* POST /tune-hyperparameters
TuneHyperparameters ==
    /\ pc = "idle" /\ nextId <= MaxIds
    /\ \E generated \in ModelCodes \cup {NoCode} :
          LET out == tune_hyperparameters(files, nextId, generated)
          IN  /\ last' = Served("/tune-hyperparameters", <<>>, generated, out)
              /\ files' = out.files
              /\ nextId' = IF out.files # files THEN nextId + 1 ELSE nextId
    /\ pc' = "done"

\* POST /execute-hyperparameter-tuning
ExecuteTuning ==
    /\ pc = "idle" /\ nextId <= MaxIds
    /\ \E tkey \in (DOMAIN files) \cup {<<>>, EscapingKey},
          ckey \in (DOMAIN files) \cup {GenericCleanedKey, EscapingKey},
          env \in TuneRouteEnvs :
       \E outside \in {o \in BOOLEAN : o => (LeavesStore(tkey) \/ LeavesStore(ckey))} :
          LET out == execute_tuning(files, nextId, tkey, ckey, env, outside)
          IN  /\ last' = Served("/execute-hyperparameter-tuning", tkey,
                                ReadCode(files, tkey), out)
              /\ files' = out.files
              /\ nextId' = IF out.files # files THEN nextId + 1 ELSE nextId
    /\ pc' = "done"

\* GET /download-model/<model_name>
DownloadModel ==
    /\ pc = "idle"
    /\ \E name \in ModelNames :
          LET out == download_model(files, name, FALSE)
          IN  last' = Served("/download-model", name, NoCode, out)
    /\ pc' = "done"
    /\ UNCHANGED <<files, nextId>>

\* the response is out; the server waits for the next request
Respond ==
    /\ pc = "done"
    /\ pc' = "idle"
    /\ last' = NoCall
    /\ UNCHANGED <<files, nextId>>

Next ==
    \/ Upload
    \/ ExecutePreprocessing
    \/ ExecuteTraining
    \/ TuneHyperparameters
    \/ ExecuteTuning
    \/ DownloadModel
    \/ Respond

Spec == Init /\ [][Next]_vars

----------------------------------------------------------------------------
(* The executor called directly: every shape of the object run_code        *)
(* returns, and every combination of the files the run leaves behind.      *)
(***************************************************************************)

AllShapes == StdoutShapes \cup StderrShapes

PreCallEnvs ==
    PreEnvs(RouteShapes) \cup {[BaseEnv EXCEPT !.shape = sh] : sh \in AllShapes}

TrainCallEnvs ==
    TrainEnvs(RouteShapes) \cup {[BaseEnv EXCEPT !.shape = sh] : sh \in AllShapes}

TuneCallEnvs ==
    TuneEnvs({QuietShape, ErrorShape}) \cup {[BaseEnv EXCEPT !.shape = sh] : sh \in AllShapes}

\* e2b_service.py 581: sandbox.run_code(tuning_code, timeout=900)
TuningTimeout == 900

\* the timeout keyword of the run-phase sandbox.run_code call of an
\* operation: <<>> when the call passes none (e2b_service.py 77, 273)
RunTimeout(op) ==
    IF op = "execute_hyperparameter_tuning" THEN <<TuningTimeout>> ELSE <<>>

\* the call just made, as kept in last; timeout is the timeout keyword of
\* the run-phase submission when one was made
Called(op, code, env, ex, after) ==
    [op |-> op, code |-> code, env |-> env, result |-> ex.result,
     events |-> ex.events, wrote |-> Written(files, after),
     submitted |-> \E i \in 1..Len(ex.events) : ex.events[i].ev = "sandbox.run",
     timeout |-> RunTimeout(op)]

\* E2BService().execute_preprocessing_code(code, path)
CallPreprocessing ==
    /\ pc = "idle"
    /\ \E code \in ModelCodes, env \in PreCallEnvs :
          last' = Called("execute_preprocessing_code", code, env,
                         execute_preprocessing_code(code, env), files)
    /\ pc' = "done"
    /\ UNCHANGED <<files, nextId>>

\* E2BService().execute_training_code(code, path)
CallTraining ==
    /\ pc = "idle"
    /\ \E code \in ModelCodes, env \in TrainCallEnvs :
          last' = Called("execute_training_code", code, env,
                         execute_training_code(code, env), files)
    /\ pc' = "done"
    /\ UNCHANGED <<files, nextId>>

\* E2BService().execute_hyperparameter_tuning(code, path, experiment_id)
CallTuning ==
    /\ pc = "idle" /\ nextId <= MaxIds
    /\ \E code \in ModelCodes, env \in TuneCallEnvs :
          LET ex    == execute_hyperparameter_tuning(code, env)
              after == PutAll(files, [k \in DOMAIN ex.stored |->
                                         DataBlob("model", ex.stored[k], nextId)])
          IN  /\ last' = Called("execute_hyperparameter_tuning", code, env, ex, after)
              /\ files' = after
              /\ nextId' = IF after # files THEN nextId + 1 ELSE nextId
    /\ pc' = "done"

ExecutorNext ==
    \/ CallPreprocessing
    \/ CallTraining
    \/ CallTuning
    \/ Respond

ExecutorSpec == Init /\ [][ExecutorNext]_vars

----------------------------------------------------------------------------
(* The blob store called directly, with every key of up to MaxKeyLen       *)
(* tokens, the keys of the stored files, and keys that name a stored file  *)
(* under another timestamp.                                                *)
(***************************************************************************)

TokenKeys == SeqsUpTo(KeyAlphabet, MaxKeyLen)

StaleKeys == {UploadsPrefix \o Stamp(0) \o <<"a", ".", "csv">>,
              ProcessedPrefix \o Stamp(0) \o <<"a", ".", "csv">>}

StoreKeys == TokenKeys \cup (DOMAIN files) \cup StaleKeys

\* LocalStorageService().download_file(key)
DownloadFile ==
    /\ pc = "idle"
    /\ \E key \in StoreKeys :
       \E dl \in download_file(files, key) :
          last' = [op |-> "download_file", key |-> key, ok |-> dl.ok,
                   path |-> IF dl.ok THEN dl.path ELSE <<>>,
                   error |-> IF dl.ok THEN "" ELSE dl.error,
                   events |-> dl.fs, wrote |-> {}, removed |-> {}]
    /\ pc' = "done"
    /\ UNCHANGED <<files, nextId>>

\* LocalStorageService().delete_file(key)
DeleteFile ==
    /\ pc = "idle"
    /\ \E key \in StoreKeys :
          LET out == delete_file(files, key)
          IN  /\ last' = [op |-> "delete_file", key |-> key, ok |-> out.ok,
                          path |-> <<>>, error |-> out.error,
                          events |-> out.fs, wrote |-> Written(files, out.files),
                          removed |-> (DOMAIN files) \ (DOMAIN out.files)]
              /\ files' = out.files
    /\ pc' = "done"
    /\ UNCHANGED nextId

\* The contents a client uploads in a round trip
RoundTripContents == {"csv rows", "txt rows"}

\* upload_file(path, name) followed at once by download_file(returned key)
\* and a read of the file at the returned path, as the integration test
\* does; content is what that read gives.
UploadThenDownload ==
    /\ pc = "idle" /\ nextId <= MaxIds
    /\ \E name \in UploadFileNames, src \in RoundTripContents :
          LET up == upload_file(files, nextId, src, name)
          IN  IF up.ok
              THEN /\ \E dl \in download_file(up.files, up.key) :
                         last' = [op |-> "upload_file;download_file", name |-> name,
                                  src |-> src, key |-> up.key,
                                  uploaded |-> TRUE, ok |-> dl.ok,
                                  path |-> IF dl.ok THEN dl.path ELSE <<>>,
                                  content |-> IF dl.ok THEN up.files[dl.path].data
                                              ELSE "",
                                  events |-> up.events \o dl.fs,
                                  wrote |-> Written(files, up.files), removed |-> {}]
                   /\ files' = up.files
                   /\ nextId' = nextId + 1
              ELSE /\ last' = [op |-> "upload_file;download_file", name |-> name,
                               src |-> src, key |-> <<>>,
                               uploaded |-> FALSE, ok |-> FALSE,
                               path |-> <<>>, content |-> "",
                               events |-> up.events,
                               wrote |-> {}, removed |-> {}]
                   /\ UNCHANGED <<files, nextId>>
    /\ pc' = "done"

StorageNext ==
    \/ Upload
    \/ DownloadFile
    \/ DeleteFile
    \/ Respond

StorageSpec == Init /\ [][StorageNext]_vars

\* longest suggested file name that is enumerated token by token
MaxNameLen == 5

\* the suggested file names of the whole integration run
SuggestedNames == SeqsUpTo({".", "/", "a", "csv"}, MaxNameLen)

\* the whole integration run: upload_file(path, name), download_file with
\* the returned key, delete_file with the returned key
UploadDownloadDelete ==
    /\ pc = "idle" /\ nextId <= MaxIds
    /\ \E name \in SuggestedNames :
          LET up == upload_file(files, nextId, "csv rows", name)
          IN  IF up.ok
              THEN LET del == delete_file(up.files, up.key)
                   IN  /\ \E dl \in download_file(up.files, up.key) :
                             last' = [op |-> "upload_file;download_file;delete_file",
                                      name |-> name, src |-> "csv rows", key |-> up.key,
                                      uploaded |-> TRUE, ok |-> dl.ok,
                                      path |-> IF dl.ok THEN dl.path ELSE <<>>,
                                      content |-> IF dl.ok THEN up.files[dl.path].data
                                                  ELSE "",
                                      events |-> up.events \o dl.fs \o del.fs,
                                      wrote |-> Written(files, del.files),
                                      removed |-> (DOMAIN up.files) \ (DOMAIN del.files)]
                       /\ files' = del.files
                       /\ nextId' = nextId + 1
              ELSE /\ last' = [op |-> "upload_file;download_file;delete_file",
                               name |-> name, src |-> "csv rows", key |-> <<>>,
                               uploaded |-> FALSE, ok |-> FALSE,
                               path |-> <<>>, content |-> "",
                               events |-> up.events,
                               wrote |-> {}, removed |-> {}]
                   /\ UNCHANGED <<files, nextId>>
    /\ pc' = "done"

\* Round trips through the store, between uploads of other clients
RoundTripNext ==
    \/ Upload
    \/ UploadThenDownload
    \/ UploadDownloadDelete
    \/ Respond

RoundTripSpec == Init /\ [][RoundTripNext]_vars

----------------------------------------------------------------------------
(* ValidatorSpec: CodeValidator called directly, on every text the         *)
(* validator can tell apart.                                               *)
(***************************************************************************)

AllCodes ==
    [syntax : SyntaxKinds, repaired : {FALSE}, sparseOHE : BOOLEAN,
     sparseOther : BOOLEAN, sparseOut : BOOLEAN, pd : BOOLEAN, np : BOOLEAN,
     cleaned_df : BOOLEAN, cleaned_data : BOOLEAN, to_csv : BOOLEAN,
     vars : SUBSET AliasVars, appended : {<<>>}]

\* the validators validate_and_fix_code calls, in order
validator_calls(code) ==
    <<"validate_python_syntax">>
    \o (IF validate_python_syntax(code).valid
        THEN <<"validate_sklearn_syntax", "ensure_cleaned_df_variable">>
        ELSE <<>>)

\* CodeValidator.validate_and_fix_code(code)
ValidateAndFix ==
    /\ pc = "idle"
    /\ \E code \in AllCodes :
          last' = [op |-> "validate_and_fix_code", code |-> code,
                   result |-> validate_and_fix_code(code),
                   calls |-> validator_calls(code), previous |-> <<>>]
    /\ pc' = "done"
    /\ UNCHANGED <<files, nextId>>

\* CodeValidator.validate_and_fix_code called on the fixed_code it returned
ValidateAgain ==
    /\ pc = "done"
    /\ last.op = "validate_and_fix_code" /\ last.previous = <<>>
    /\ last' = [op |-> "validate_and_fix_code", code |-> last.result.fixed_code,
                result |-> validate_and_fix_code(last.result.fixed_code),
                calls |-> validator_calls(last.result.fixed_code),
                previous |-> <<last.result>>]
    /\ UNCHANGED <<files, nextId, pc>>

\* CodeValidator.validate_python_syntax(code)
ValidateSyntax ==
    /\ pc = "idle"
    /\ \E code \in AllCodes :
          last' = [op |-> "validate_python_syntax", code |-> code,
                   result |-> validate_python_syntax(code)]
    /\ pc' = "done"
    /\ UNCHANGED <<files, nextId>>

ValidatorNext ==
    \/ ValidateAndFix
    \/ ValidateAgain
    \/ ValidateSyntax
    \/ Respond

ValidatorSpec == Init /\ [][ValidatorNext]_vars

----------------------------------------------------------------------------
(* GenerationSpec: the endpoints that obtain code from the generator.      *)
(***************************************************************************)

\* the texts the generator returns
GeneratedCodes ==
    {CleanCode,
     [CleanCode EXCEPT !.sparseOHE = TRUE],
     [CleanCode EXCEPT !.syntax = "other", !.to_csv = FALSE]}

\* dataset_info['storage_key'] of the generation requests
DatasetKeys == {UploadsPrefix \o Stamp(0) \o <<"a", ".", "csv">>}

\* POST /generate-preprocessing
GeneratePreprocessing ==
    /\ pc = "idle" /\ nextId <= MaxIds
    /\ \E generated \in GeneratedCodes \cup {NoCode}, key \in DatasetKeys,
          saved \in BOOLEAN :
          LET out == generate_preprocessing_code(files, nextId, generated, key, saved)
          IN  /\ last' = Served("/generate-preprocessing", key, generated, out)
              /\ files' = out.files
              /\ nextId' = IF out.files # files THEN nextId + 1 ELSE nextId
    /\ pc' = "done"

\* POST /generate-training-code
GenerateTrainingCode ==
    /\ pc = "idle"
    /\ \E generated \in GeneratedCodes \cup {NoCode} :
          LET out == generate_training_code(files, generated)
          IN  last' = Served("/generate-training-code", <<>>, generated, out)
    /\ pc' = "done"
    /\ UNCHANGED <<files, nextId>>

GenerationNext ==
    \/ GeneratePreprocessing
    \/ GenerateTrainingCode
    \/ TuneHyperparameters
    \/ Respond

GenerationSpec == Init /\ [][GenerationNext]_vars

----------------------------------------------------------------------------
(* Properties *)

ExecuteEndpoints ==
    {"/execute-preprocessing", "/execute-training", "/execute-hyperparameter-tuning"}

ExecutorOps ==
    {"execute_preprocessing_code", "execute_training_code", "execute_hyperparameter_tuning"}

CompletedStatuses == {"success", "partial_success", "failed_with_errors"}

\* the request just served is an execute request that called the executor
ReachedExecutor(op) == last.op = op /\ Len(last.exec) = 1

\* positions in last.events of the calls named name
EventsNamed(name) == {i \in 1..Len(last.events) : last.events[i].ev = name}

FileSystemCalls == {"fs.exists", "fs.open", "fs.listdir", "fs.send", "fs.remove"}

C2_TrainingNeedsModelFile ==
    (/\ ReachedExecutor("/execute-training")
     /\ last.exec[1].success
     /\ last.exec[1].model_files = <<>>)
    => /\ "success" \in DOMAIN last.response
       /\ last.response.success = FALSE

\* C3: a completed preprocessing run without cleaned dataset is classified
\* failed_with_errors when the captured error output contains "Error" (or,
\* for a text payload, "Exception"), partial_success when it contains no
\* marker, and never success.
C3_AbsentDatasetClassification ==
    (/\ ReachedExecutor("/execute-preprocessing")
     /\ last.exec[1].success
     /\ ~last.exec[1].cleaned_data_exists)
    => /\ last.response.execution_status # "success"
       /\ last.response.execution_status \in {"failed_with_errors", "partial_success"}
       /\ (last.exec[1].stderr.text = "Error"
              => last.response.execution_status = "failed_with_errors")
       /\ (last.exec[1].stderr.text = "Exception" /\ ~last.exec[1].stderr.dict
              => last.response.execution_status = "failed_with_errors")
       /\ (last.exec[1].stderr.text \in {"empty", "plain"}
              => last.response.execution_status = "partial_success")

\* a completed run without dataset whose error output holds "Error"
C3_Witness ==
    /\ ReachedExecutor("/execute-preprocessing")
    /\ last.exec[1].success
    /\ ~last.exec[1].cleaned_data_exists
    /\ last.exec[1].stderr.text = "Error"
    /\ ~last.exec[1].stderr.dict
    /\ last.response.execution_status = "failed_with_errors"

\* the sandbox could not be created during the request just served
CreationFailed ==
    \E i \in EventsNamed("sandbox.create") : last.events[i].arg = "fail"

\* C4 (as stated): an execute request during which sandbox creation fails is
\* answered as failed and writes nothing to the blob store.
C4_NoWriteWhenCreationFails ==
    (last.op \in ExecuteEndpoints /\ CreationFailed)
    => /\ last.response.code >= 400
       /\ last.wrote = {}
       /\ EventsNamed("store.write") = {}

\* the transport exception of a failed creation or upload
TransportMessage(env) == IF env.create = "fail" THEN CreateError ELSE UploadError

\* C5 (as stated): when sandbox creation or the upload fails, the executor
\* result has success=false and its error holds the message of the
\* transport exception.
C5_TransportMessageReported ==
    (/\ last.op \in ExecutorOps
     /\ (last.env.create = "fail" \/ last.env.upload = "fail"))
    => /\ ~last.result.success
       /\ HasToken(last.result.error, TransportMessage(last.env))

\* the sandbox was created and loaded, both submissions returned, and the
\* run left none of its result files
RanWithoutArtifact(env) ==
    /\ env.create = "ok" /\ env.upload = "ok"
    /\ env.install = "returns" /\ env.run = "returns"
    /\ env.cleaned = "absent"
    /\ env.models = <<>> /\ env.results = "none"
    /\ env.tuned = <<>> /\ ~env.tuning /\ env.report = "absent"

\* C6: when creation and upload succeed and the run returns (with error
\* text, without result file), every executor operation returns
\* success=true with its artifact absent.
C6_LogicalErrorIsSuccess ==
    (last.op \in ExecutorOps /\ RanWithoutArtifact(last.env))
    => /\ last.result.success
       /\ "error" \notin DOMAIN last.result
       /\ (last.op = "execute_preprocessing_code"
              => ~last.result.cleaned_data_exists /\ last.result.cleaned_data_content = "None")
       /\ (last.op = "execute_training_code" => last.result.model_files = <<>>)
       /\ (last.op = "execute_hyperparameter_tuning" => last.result.files_created = <<>>)

\* such a run with error text in the captured error output
C6_Witness ==
    /\ last.op = "execute_preprocessing_code"
    /\ RanWithoutArtifact(last.env)
    /\ last.result.success
    /\ last.result.stderr.text = "Error"

ArtifactFields ==
    {"cleaned_data_exists", "cleaned_data_content", "model_files", "results",
     "model_results", "models_trained", "files_created", "tuning_results",
     "tuning_results_content", "comparison_report", "improvements"}

\* C7: a result with success=false holds no artifact flag and no payload.
C7_FailureCarriesNoArtifact ==
    (last.op \in ExecutorOps /\ ~last.result.success)
    => (DOMAIN last.result) \cap ArtifactFields = {}

\* a tuning call whose run submission raised
C7_Witness ==
    /\ last.op = "execute_hyperparameter_tuning"
    /\ "result" \in DOMAIN last
    /\ ~last.result.success
    /\ last.env.run = "raise"
    /\ (DOMAIN last.result) \cap ArtifactFields = {}

\* C8 (as stated): in every execute request the code was validated before
\* the sandbox run was submitted, and nothing was written to the blob store
\* before the run had completed.
C8_ValidatedBeforeRunAndStoredAfter ==
    last.op \in ExecuteEndpoints =>
        \A i \in EventsNamed("sandbox.run") :
            /\ \E j \in EventsNamed("validate") : j < i
            /\ \A j \in EventsNamed("store.write") : j > i

\* a caller-supplied identifier that has to be refused
TraversalKey(key) == HasDotDot(key) \/ StartsWith(key, <<"/">>)

\* C9 (as stated): an endpoint makes no file-system call for a request whose
\* identifier contains '..' or starts with '/'.
C9_IdentifierRejectedBeforeFileSystem ==
    (/\ last.op \in ExecuteEndpoints \cup {"/download-model"}
     /\ TraversalKey(last.key))
    => \A n \in FileSystemCalls : EventsNamed(n) = {}

\* a key that the store has to refuse
RefusedKey(key) ==
    \/ key = <<>>
    \/ HasDotDot(key)
    \/ StartsWith(key, <<"/">>)
    \/ ~(StartsWith(key, <<"uploads", "/">>) \/ StartsWith(key, <<"processed", "/">>))

\* C10: download_file and delete_file refuse every key that is empty,
\* contains '..', starts with '/' or has no allowed prefix, before any
\* file-system call: no path is returned and no file is deleted.
C10_StoreRefusesBadKeys ==
    (last.op \in {"download_file", "delete_file"} /\ RefusedKey(last.key))
    => /\ ~last.ok
       /\ last.events = <<>>
       /\ last.path = <<>>
       /\ last.removed = {} /\ last.wrote = {}

\* a key with an allowed prefix and a '..' behind it was refused
C10_Witness ==
    /\ last.op = "delete_file"
    /\ StartsWith(last.key, <<"uploads", "/">>)
    /\ HasDotDot(last.key)
    /\ ~last.ok

\* C11 (as stated): after any sequence of uploads and deletes, download_file
\* with a well-formed key under which no blob is stored reports not-found;
\* it never returns the path of a blob stored under a different key.
C11_AbsentKeyIsNotFound ==
    (last.op = "download_file" /\ ~RefusedKey(last.key)
        /\ last.key \notin DOMAIN files)
    => ~last.ok /\ last.path = <<>>

\* C12: for every non-empty file that upload_file accepts, download_file
\* called at once with the returned key succeeds and the file at the
\* returned path holds exactly the uploaded content, whatever other keys
\* the store holds.
C12_UploadDownloadRoundTrip ==
    (last.op = "upload_file;download_file" /\ last.uploaded)
    => /\ last.ok
       /\ last.path = last.key
       /\ last.content = last.src

\* a round trip made while the store already holds an upload of the same
\* name with a different content
C12_Witness ==
    /\ last.op = "upload_file;download_file" /\ last.uploaded /\ last.ok
    /\ \E k \in DOMAIN files :
          /\ k # last.key
          /\ Basename(k) # <<>>
          /\ AfterThirdUnderscore(Basename(k)) = AfterThirdUnderscore(Basename(last.key))
          /\ files[k].data # last.src

\* C13 (as stated): an upload whose suggested file name contains
\* path-traversal components is rejected with an error, whatever its
\* extension, and no file is written.
C13_TraversalNameRejected ==
    (last.op = "upload_file" /\ HasDotDot(last.key))
    => ~last.ok /\ last.wrote = {}

\* the text with every 'sparse=False' respelled when a OneHotEncoder call
\* uses it, and nothing else changed
SparseRespelled(code) ==
    IF code.sparseOHE
    THEN [code EXCEPT !.sparseOHE = FALSE, !.sparseOther = FALSE, !.sparseOut = TRUE]
    ELSE code

\* C14 (as stated): for every input that already parses,
\* validate_and_fix_code returns a fixed_code equal to the input except for
\* the 'sparse=False' substitution; it never appends or inserts statements.
C14_ValidCodeOnlyRespelled ==
    (last.op = "validate_and_fix_code" /\ last.code.syntax = "ok")
    => /\ last.result.fixed_code = SparseRespelled(last.code)
       /\ last.result.fixed_code.appended = last.code.appended

\* C15: validate_and_fix_code is idempotent on its code output: validating
\* the fixed_code it returned gives that same fixed_code back.
C15_ValidationIdempotent ==
    (last.op = "validate_and_fix_code" /\ last.previous # <<>>)
    => last.result.fixed_code = last.previous[1].fixed_code

\* a second validation of a text that the first one repaired, respelled
\* and extended with an alias line
C15_Witness ==
    /\ last.op = "validate_and_fix_code" /\ last.previous # <<>>
    /\ last.code.repaired /\ last.code.sparseOut
    /\ last.code.appended # <<>>
    /\ last.previous[1].fixes_applied = <<ExceptFix, SparseFix>>

\* ast.parse accepts the text
Parses(code) == code.syntax = "ok"

\* C16: for every input that fails to parse, validate_python_syntax returns
\* either a fixed_code that parses, with valid = true, or a fixed_code
\* identical to the input, with valid = false and a non-empty issue list;
\* never a modified text that does not parse.
C16_RepairParsesOrIsDiscarded ==
    (last.op = "validate_python_syntax" /\ ~Parses(last.code))
    => \/ last.result.valid /\ Parses(last.result.fixed_code)
       \/ /\ ~last.result.valid
          /\ last.result.fixed_code = last.code
          /\ last.result.issues # <<>>

\* the except-block repair was tried and its text did not parse
C16_Witness ==
    /\ last.op = "validate_python_syntax"
    /\ last.code.syntax = "try_unfixable"
    /\ last.result.fixes = <<ExceptFix>>
    /\ ~last.result.valid

\* C17: validate_and_fix_code checks (and repairs) the syntax first and runs
\* the convention checks only when the syntax result is valid; when the
\* syntax is invalid and not repairable it returns valid = false, the
\* original text as fixed_code and exactly the syntax issues.
C17_SyntaxFirstThenConventions ==
    last.op = "validate_and_fix_code"
    => LET syntax_result == validate_python_syntax(last.code)
       IN  /\ last.calls[1] = "validate_python_syntax"
           /\ (\E i \in 2..Len(last.calls) : last.calls[i] = "validate_sklearn_syntax")
                 <=> syntax_result.valid
           /\ ~syntax_result.valid
                 => /\ ~last.result.valid
                    /\ last.result.fixed_code = last.code
                    /\ last.result.issues = syntax_result.issues

\* a text that does not parse and also breaks every convention
C17_Witness ==
    /\ last.op = "validate_and_fix_code"
    /\ last.code.syntax = "other"
    /\ last.code.sparseOHE /\ ~last.code.to_csv /\ ~last.code.pd
    /\ last.result.issues = <<SyntaxIssue>>
    /\ last.calls = <<"validate_python_syntax">>

\* C18 (as stated): for every input that parses and uses 'sparse=False' in
\* a OneHotEncoder call, fixes_applied holds the rename record, fixed_code
\* holds 'sparse_output=False', and valid reflects the remaining issues
\* only: the repaired spelling alone does not make valid false.
C18_RepairedSpellingKeepsValid ==
    (last.op = "validate_and_fix_code" /\ Parses(last.code) /\ last.code.sparseOHE)
    => /\ \E i \in 1..Len(last.result.fixes_applied) :
             last.result.fixes_applied[i] = SparseFix
       /\ last.result.fixed_code.sparseOut
       /\ last.result.valid
             <=> \A i \in 1..Len(last.result.issues) :
                    last.result.issues[i] = SparseIssue

\* C19 (as stated): for every input that is valid except that it has no
\* 'to_csv(' call, validate_and_fix_code returns valid = false, a
\* missing-save issue, fixed_code equal to the input and no fixes.
C19_MissingSaveLeavesCodeAlone ==
    (/\ last.op = "validate_and_fix_code"
     /\ Parses(last.code) /\ ~last.code.sparseOHE
     /\ last.code.pd /\ last.code.np
     /\ (last.code.cleaned_df \/ last.code.cleaned_data)
     /\ ~last.code.to_csv)
    => /\ ~last.result.valid
       /\ \E i \in 1..Len(last.result.issues) : last.result.issues[i] = MissingSave
       /\ last.result.fixed_code = last.code
       /\ last.result.fixes_applied = <<>>

GenerationEndpoints ==
    {"/generate-preprocessing", "/generate-training-code", "/tune-hyperparameters"}

\* C20 (as stated): every invocation of the preprocess, train and tune
\* workflows that obtained code from the generator leaves a copy of that
\* code (as generated, or as the validator fixed it) in the blob store when
\* it returns, and a failed write of the copy is not passed over in silence.
C20_GeneratedCodePersisted ==
    (/\ last.op \in GenerationEndpoints
     /\ Len(last.events) > 0
     /\ last.events[1] = Ev("generate", "ok"))
    => \/ \E k \in DOMAIN files :
             /\ files[k].kind = "code"
             /\ files[k].code \in {last.code, validate_and_fix_code(last.code).fixed_code}
       \/ last.response.code # 200

\* C21 (as stated): when a completed execution produced its primary output
\* (the cleaned dataset of preprocessing, the model files of training, the
\* tuned model files of tuning), that output is in the blob store when the
\* request returns.
C21_PrimaryOutputPersisted ==
    /\ (ReachedExecutor("/execute-preprocessing") /\ last.exec[1].success
            /\ last.exec[1].cleaned_data_exists
            /\ last.exec[1].cleaned_data_content # "None")
        => \E k \in last.wrote :
              StartsWith(k, ProcessedPrefix) /\ files[k].data = last.exec[1].cleaned_data_content
    /\ (ReachedExecutor("/execute-training") /\ last.exec[1].success
            /\ last.exec[1].model_files # <<>>)
        => \E k \in last.wrote : files[k].kind = "model"
    /\ (ReachedExecutor("/execute-hyperparameter-tuning") /\ last.exec[1].success
            /\ last.exec[1].files_created # <<>>)
        => \E k \in last.wrote : files[k].kind = "model"

\* C22 (as stated): every generation call (preprocessing, training, tuning)
\* that does not fail runs validate_and_fix_code on the cleaned text before
\* the code is returned, and the validator's fix list is part of what is
\* returned.
C22_GenerationValidated ==
    (last.op \in GenerationEndpoints /\ last.response.code = 200)
    => /\ EventsNamed("validate") # {}
       /\ "code_validation" \in DOMAIN last.response
       /\ validate_and_fix_code(last.code).fixes_applied # <<>>
             => /\ last.response.code_validation # <<>>
                /\ last.response.code_validation[1].fixes_applied
                      = validate_and_fix_code(last.code).fixes_applied

\* C23 (as stated): workflow invocations share no mutable state: no
\* invocation writes a blob-store file that another invocation wrote, so
\* every file an invocation left in the store stays as that invocation
\* left it whatever other invocations do.
C23_NoSharedFiles ==
    [][\A k \in DOMAIN files : k \in DOMAIN files' /\ files'[k] = files[k]]_vars

\* C24 (as stated): in training and tuning, whenever sandbox creation and
\* the upload succeeded, the generated code is submitted to the sandbox
\* after the install phase, whatever the outcome of the install phase
\* (the install submission raising included).
C24_InstallNeverPreventsRun ==
    (/\ last.op \in {"execute_training_code", "execute_hyperparameter_tuning"}
     /\ last.env.create = "ok" /\ last.env.upload = "ok")
    => \E i \in EventsNamed("sandbox.install"), j \in EventsNamed("sandbox.run") :
          i < j /\ last.events[j].arg = last.code

\* the strategy the stated chain stops at: the attributes stdout, text,
\* output, content in this order, then the 'stdout:' pattern of the
\* stringified response, else the stringified response itself
StatedStdoutSource(sh) ==
    CASE sh.stdout = "val"   -> "stdout"
      [] sh.text = "val"     -> "text"
      [] sh.output = "val"   -> "output"
      [] sh.content = "val"  -> "content"
      [] sh.strOut = "match" -> "pattern"
      [] OTHER               -> "str"

\* C25 (as stated): all three executor operations take the standard output
\* from the sandbox response through the same ordered chain, use the first
\* strategy that finds a non-empty value, and fall back to the stringified
\* response.
C25_SameStdoutChain ==
    (last.op \in ExecutorOps /\ last.result.success)
    => last.result.stdout.src = StatedStdoutSource(last.env.shape)

\* C26 (as stated): every run-phase submission of generated code to the
\* sandbox carries an explicit timeout, in all three operations, and the
\* timeout of tuning is strictly longer than that of preprocessing and
\* training.
C26_ExplicitRunTimeout ==
    (last.op \in ExecutorOps /\ last.submitted)
    => /\ last.timeout # <<>>
       /\ \A op \in ExecutorOps \ {"execute_hyperparameter_tuning"} :
             /\ RunTimeout(op) # <<>>
             /\ RunTimeout("execute_hyperparameter_tuning")[1] > RunTimeout(op)[1]

\* C27 (as stated): in execute-preprocessing the code handed to the
\* executor is always the validator's fixed_code, also when the validator
\* changed the code without an entry in fixes_applied.
C27_ExecutorGetsFixedCode ==
    ReachedExecutor("/execute-preprocessing")
    => \A i \in EventsNamed("sandbox.run") :
          last.events[i].arg = validate_and_fix_code(last.code).fixed_code

\* C28: every key upload_file returns, for any suggested file name it
\* accepts, starts with 'uploads/', holds no '..' and no '/' after the
\* prefix, and passes the key validation of download_file.
C28_UploadKeysPassValidation ==
    (last.op = "upload_file;download_file;delete_file" /\ last.uploaded)
    => /\ StartsWith(last.key, UploadsPrefix)
       /\ ~HasDotDot(last.key)
       /\ ~HasToken(SubSeq(last.key, Len(UploadsPrefix) + 1, Len(last.key)), "/")
       /\ ~KeyFormatInvalid(last.key) /\ KeyPrefixAllowed(last.key)
       /\ last.ok /\ last.path = last.key

\* an accepted name whose last path component itself holds '..'
C28_Witness ==
    /\ last.op = "upload_file;download_file;delete_file" /\ last.uploaded
    /\ HasDotDot(Basename(last.name))
    /\ last.ok

\* C29 (as stated): a repair is reported only if it is in the returned
\* code: whenever validate_and_fix_code returns the original input as
\* fixed_code, fixes_applied is empty.
C29_NoFixReportedForUnchangedCode ==
    (last.op = "validate_and_fix_code" /\ last.result.fixed_code = last.code)
    => last.result.fixes_applied = <<>>

=============================================================================
